---- MODULE Spec2Model ----
(***************************************************************************)
(* Model of src/src/io.rs: the IoOp table, the IoBackend capability trait  *)
(* with its default methods, the StdIo backend, the IoOp::run dispatcher   *)
(* and the value -> image / value -> WAV codec.                            *)
(*                                                                         *)
(* A Value is a record [kind, shape, data]: kind is the Value variant      *)
(* ("Num", "Byte", "Char"), shape the dimension sizes, data the flat       *)
(* row-major buffer.  A Num element k stands for the f64 k / Den (a dyadic *)
(* rational, so that f * 255.0 and the cast to f32 are exact); a Byte      *)
(* element is a u8 or Fill (the unset marker); a Char element is a code    *)
(* point.                                                                  *)
(***************************************************************************)
EXTENDS Integers, Sequences, FiniteSets, TLC

VARIABLES
  cval, cimg, cwav,     \* codec: the input Value and the two results
  fpath, fformat,       \* imwrite's format selection: a path and its format
  backend,              \* which IoBackend env.io is: "StdIo" or "Default"
  program,              \* which operations the evaluator's program calls
  stack,                \* the evaluator's value stack, top at the end
  fs,                   \* the file system behind StdIo
  written,              \* per path, what fwritestr/fwritebytes wrote last
  AUDIO_STREAM,         \* the thread-local slot: a stream handle, 0 for None
  playing,              \* playback was started on the stream in the slot
  last                  \* the outcome of the IoOp::run that just returned

cvars == <<cval, cimg, cwav>>
fvars == <<fpath, fformat>>
iovars == <<backend, program, stack, fs, written, AUDIO_STREAM, playing, last>>
vars == <<cvars, fvars, iovars>>

----------------------------------------------------------------------------
(* Bounds of the model. *)
MaxRank == 3
MaxDim == 4
MaxCells == 3
MaxPathLen == 4
MaxStack == 2

(* Denominator of the Num elements: k stands for k / Den. *)
Den == 4
(* The unset marker of a Byte element (outside the u8 range). *)
Fill == 256

NumElems == {-1, 0, 2, 4}
ByteElems == {0, 1, 3, Fill}
CharElems == {97}

----------------------------------------------------------------------------
(* Helpers on sequences and shapes. *)
RECURSIVE Product(_)
Product(s) == IF s = <<>> THEN 1 ELSE Head(s) * Product(Tail(s))

RECURSIVE SeqsUpTo(_, _)
SeqsUpTo(S, n) ==
  IF n = 0 THEN {<<>>}
  ELSE LET shorter == SeqsUpTo(S, n - 1)
       IN shorter \cup {Append(s, x) : s \in {t \in shorter : Len(t) = n - 1}, x \in S}

SeqsOfLen(S, n) == [1..n -> S]

Array(kind, shape, data) == [kind |-> kind, shape |-> shape, data |-> data]

(* Value::rank, Value::shape, Value::row_len of the array library. *)
Rank(v) == Len(v.shape)
RowLen(v) == IF v.shape = <<>> THEN 1 ELSE Product(Tail(v.shape))

(* Byte::or *)
ByteOr(b, d) == IF b = Fill THEN d ELSE b
Min(a, b) == IF a <= b THEN a ELSE b

(* usize as u32 keeps every value below 2^32, and so every dimension the   *)
(* model checker can hold (its integers end at 2^31 - 1); usize as u16.    *)
AsU32(x) == x
AsU16(x) == x % 65536
(* f64 as u8: Rust's float-to-int cast saturates. *)
SatU8(x) == IF x < 0 THEN 0 ELSE IF x > 255 THEN 255 ELSE x

----------------------------------------------------------------------------
(* value_to_image *)
NoResult == [tag |-> "None"]
ImgErr(msg, n) == [tag |-> "Err", msg |-> msg, n |-> n]
ImgOk(color, w, h, buf) ==
  [tag |-> "Ok", color |-> color, width |-> w, height |-> h, buf |-> buf]

NumToPixelRounding(f) == SatU8((f * 255 + Den \div 2) \div Den)
\* (f * 255.0).floor() as u8
NumToPixel(f) == SatU8((f * 255) \div Den)
(* b.or(0).min(1) * 255 *)
ByteToPixel(b) == Min(ByteOr(b, 0), 1) * 255

ImageBytes(value) ==
  IF value.kind = "Num"
  THEN [i \in 1..Len(value.data) |-> NumToPixel(value.data[i])]
  ELSE [i \in 1..Len(value.data) |-> ByteToPixel(value.data[i])]

(* ImageBuffer::from_raw: None when the buffer is shorter than w * h * px. *)
FromRaw(color, px, w, h, buf) ==
  IF Len(buf) >= w * h * px
  THEN ImgOk(color, w, h, buf)
  ELSE ImgErr("Failed to create image", -1)

value_to_image_lax(value) ==
  IF Rank(value) \notin {2, 3}
  THEN ImgErr("Image must be a rank 2 or 3 numeric array", -1)
  ELSE IF value.kind \notin {"Num", "Byte"}
  THEN ImgErr("Image must be a numeric array", -1)
  ELSE LET bytes == ImageBytes(value)
           height == value.shape[1]
           width == value.shape[2]
           px_size == IF Rank(value) = 2 THEN 1 ELSE value.shape[3]
       IN CASE px_size = 1 -> FromRaw("Luma8", 1, AsU32(width), AsU32(height), bytes)
            [] px_size = 2 -> FromRaw("LumaA8", 2, AsU32(width), AsU32(height), bytes)
            [] px_size = 3 -> FromRaw("Rgb8", 3, AsU32(width), AsU32(height), bytes)
            [] OTHER -> FromRaw("Rgba8", 4, AsU32(width), AsU32(height), bytes)

value_to_image(value) ==
  IF Rank(value) \notin {2, 3}
  THEN ImgErr("Image must be a rank 2 or 3 numeric array", -1)
  ELSE IF value.kind \notin {"Num", "Byte"}
  THEN ImgErr("Image must be a numeric array", -1)
  ELSE LET bytes == ImageBytes(value)
           height == value.shape[1]
           width == value.shape[2]
           px_size == IF Rank(value) = 2 THEN 1 ELSE value.shape[3]
       IN CASE px_size = 1 -> FromRaw("Luma8", 1, AsU32(width), AsU32(height), bytes)
            [] px_size = 2 -> FromRaw("LumaA8", 2, AsU32(width), AsU32(height), bytes)
            [] px_size = 3 -> FromRaw("Rgb8", 3, AsU32(width), AsU32(height), bytes)
            [] px_size = 4 -> FromRaw("Rgba8", 4, AsU32(width), AsU32(height), bytes)
            [] OTHER -> ImgErr("For a color image, the last dimension of the image array must be between 1 and 4 but it is", px_size)

----------------------------------------------------------------------------
(* value_to_wav_bytes.  A sample is held in units of 1 / Den. *)
WavErr(msg, n) == [tag |-> "Err", msg |-> msg, n |-> n]
WavPanic(msg) == [tag |-> "Panic", msg |-> msg]
WavOk(channels, samples) ==
  [tag |-> "Ok", channels |-> channels, sample_rate |-> 44100,
   bits_per_sample |-> 32, sample_format |-> "Float", samples |-> samples]

(* f as f32 (exact on the dyadic elements) and b.or(0) as f32 *)
NumToSample(f) == f
ByteToSample(b) == ByteOr(b, 0) * Den

WavValues(audio) ==
  IF audio.kind = "Num"
  THEN [i \in 1..Len(audio.data) |-> NumToSample(audio.data[i])]
  ELSE [i \in 1..Len(audio.data) |-> ByteToSample(audio.data[i])]

(* slice::chunks_exact(n) for n > 0: the full chunks, the remainder dropped *)
ChunksExact(values, n) ==
  [c \in 1..(Len(values) \div n) |-> SubSeq(values, (c - 1) * n + 1, c * n)]

(* for i in 0..length { for channel in &channels { write_sample(channel[i]) } } *)
Interleave(channels, length) ==
  LET n == Len(channels)
  IN [k \in 1..(length * n) |-> channels[((k - 1) % n) + 1][((k - 1) \div n) + 1]]

(* What hound's WavWriter does with a WavSpec of zero channels is not      *)
(* decided by this file, which only maps its Result: the outcome is one of *)
(* HoundZeroChannels, chosen by the caller.                                *)
HoundZeroChannels == {"Ok", "Err"}

value_to_wav_bytes(audio, zero) ==
  IF audio.kind \notin {"Num", "Byte"}
  THEN WavErr("Audio must be a numeric array", -1)
  ELSE LET values == WavValues(audio)
       IN CASE Rank(audio) = 1 -> WavOk(AsU16(1), Interleave(<<values>>, Len(values)))
            [] Rank(audio) = 2 ->
                 IF RowLen(audio) = 0
                 THEN WavPanic("chunk size must be non-zero")
                 ELSE LET channels == ChunksExact(values, RowLen(audio))
                          length == RowLen(audio)
                      IN IF Len(channels) = 0
                         THEN IF zero = "Ok"
                              THEN WavOk(AsU16(0), <<>>)
                              ELSE WavErr("Failed to finalize audio", -1)
                         ELSE WavOk(AsU16(Len(channels)), Interleave(channels, length))
            [] OTHER -> WavErr("Audio must be a rank 1 or 2 numeric array, but it is rank", Rank(audio))

----------------------------------------------------------------------------
(* Strings are sequences of code points; String::into_bytes and            *)
(* String::from_utf8 are the UTF-8 encoding and its checked decoding.      *)
Utf8Char(cp) ==
  CASE cp < 128 -> <<cp>>
    [] cp < 2048 -> <<192 + (cp \div 64), 128 + (cp % 64)>>
    [] cp < 65536 -> <<224 + (cp \div 4096), 128 + ((cp \div 64) % 64), 128 + (cp % 64)>>
    [] OTHER -> <<240 + (cp \div 262144), 128 + ((cp \div 4096) % 64),
                  128 + ((cp \div 64) % 64), 128 + (cp % 64)>>

RECURSIVE into_bytes_str(_)
into_bytes_str(str) ==
  IF str = <<>> THEN <<>> ELSE Utf8Char(Head(str)) \o into_bytes_str(Tail(str))

IsCont(b) == 128 <= b /\ b <= 191
Utf8Fail == [ok |-> FALSE, str |-> <<>>]

RECURSIVE from_utf8_acc(_, _)
from_utf8_acc(bytes, acc) ==
  IF bytes = <<>> THEN [ok |-> TRUE, str |-> acc]
  ELSE LET b == bytes[1]
           n == Len(bytes)
       IN CASE b < 128 -> from_utf8_acc(Tail(bytes), Append(acc, b))
            [] 194 <= b /\ b <= 223 ->
                 IF n >= 2 /\ IsCont(bytes[2])
                 THEN from_utf8_acc(SubSeq(bytes, 3, n),
                                    Append(acc, (b - 192) * 64 + (bytes[2] - 128)))
                 ELSE Utf8Fail
            [] 224 <= b /\ b <= 239 ->
                 IF n >= 3 /\ IsCont(bytes[2]) /\ IsCont(bytes[3])
                 THEN LET cp == (b - 224) * 4096 + (bytes[2] - 128) * 64 + (bytes[3] - 128)
                      IN IF cp < 2048 \/ (55296 <= cp /\ cp <= 57343)
                         THEN Utf8Fail
                         ELSE from_utf8_acc(SubSeq(bytes, 4, n), Append(acc, cp))
                 ELSE Utf8Fail
            [] 240 <= b /\ b <= 244 ->
                 IF n >= 4 /\ IsCont(bytes[2]) /\ IsCont(bytes[3]) /\ IsCont(bytes[4])
                 THEN LET cp == (b - 240) * 262144 + (bytes[2] - 128) * 4096
                                + (bytes[3] - 128) * 64 + (bytes[4] - 128)
                      IN IF cp < 65536 \/ cp > 1114111
                         THEN Utf8Fail
                         ELSE from_utf8_acc(SubSeq(bytes, 5, n), Append(acc, cp))
                 ELSE Utf8Fail
            [] OTHER -> Utf8Fail

from_utf8(bytes) == from_utf8_acc(bytes, <<>>)

(* str::lines: split on "\n", a final empty line dropped, a trailing "\r" of a line removed *)
StripCr(line) ==
  IF line # <<>> /\ line[Len(line)] = 13 THEN SubSeq(line, 1, Len(line) - 1) ELSE line

RECURSIVE lines_acc(_, _, _)
lines_acc(str, cur, acc) ==
  IF str = <<>> THEN (IF cur = <<>> THEN acc ELSE Append(acc, StripCr(cur)))
  ELSE IF Head(str) = 10 THEN lines_acc(Tail(str), <<>>, Append(acc, StripCr(cur)))
  ELSE lines_acc(Tail(str), Append(cur, Head(str)), acc)

lines(str) == lines_acc(str, <<>>, <<>>)

----------------------------------------------------------------------------
(* The values env.push builds from Rust values. *)
Str(str) == Array("Char", <<Len(str)>>, str)
Scalar(x) == Array("Num", <<>>, <<x>>)
Bool(b) == Array("Byte", <<>>, <<IF b THEN 1 ELSE 0>>)
ByteArray(bytes) == Array("Byte", <<Len(bytes)>>, bytes)

RECURSIVE MaxLen(_)
MaxLen(strs) ==
  IF strs = <<>> THEN 0
  ELSE LET m == MaxLen(Tail(strs)) IN IF Len(Head(strs)) > m THEN Len(Head(strs)) ELSE m

PadTo(str, w) == [i \in 1..w |-> IF i <= Len(str) THEN str[i] ELSE 0]

RECURSIVE Concat(_)
Concat(ss) == IF ss = <<>> THEN <<>> ELSE Head(ss) \o Concat(Tail(ss))

(* Array::<char>::from_iter over strings: one row per string *)
StrRows(strs) ==
  LET w == MaxLen(strs)
  IN Array("Char", <<Len(strs), w>>, Concat([i \in 1..Len(strs) |-> PadTo(strs[i], w)]))

(* Value::as_string and Value::into_bytes of the value library *)
IsString(v) == v.kind = "Char" /\ Rank(v) = 1
IsByteArray(v) == v.kind = "Byte" /\ Rank(v) = 1
BytesOf(v) == [i \in 1..Len(v.data) |-> ByteOr(v.data[i], 0)]

----------------------------------------------------------------------------
(* The paths of the file system behind StdIo: a file "a", a directory "é"  *)
(* and a file "é/a" in it.  Every other path is refused by the OS.         *)
PathA == <<97>>
PathDir == <<233>>
PathDirA == <<233, 47, 97>>
FsPaths == {PathA, PathDir, PathDirA}

NoFile == [tag |-> "none", bytes |-> <<>>]
Dir == [tag |-> "dir", bytes |-> <<>>]
File(bytes) == [tag |-> "file", bytes |-> bytes]

IsChild(dir, path) ==
  /\ Len(path) > Len(dir) + 1
  /\ SubSeq(path, 1, Len(dir)) = dir
  /\ path[Len(dir) + 1] = 47
  /\ \A i \in (Len(dir) + 2)..Len(path) : path[i] # 47

ParentIsDir(fsys, path) == \A d \in FsPaths : IsChild(d, path) => fsys[d].tag = "dir"

IoOk == [ok |-> TRUE, msg |-> ""]
IoErr(msg) == [ok |-> FALSE, msg |-> msg]
Unsupported == "File IO not supported in this environment"

(* The trait's default methods. *)
Default_show_image == IoErr("Showing images not supported in this environment")
Default_play_audio == IoErr("Playing audio not supported in this environment")
Default_scan_line == <<>>
Default_var(name) == [some |-> FALSE, str |-> <<>>]
Default_args == <<>>
Default_file_exists(path) == FALSE
Default_list_dir(path) == [ok |-> FALSE, msg |-> Unsupported, paths |-> <<>>]
Default_is_file(path) == [ok |-> FALSE, msg |-> Unsupported, is |-> FALSE]
ReadFileDefaultEmpty(path) == [ok |-> TRUE, msg |-> "", bytes |-> <<>>]
Default_read_file(path) == [ok |-> FALSE, msg |-> Unsupported, bytes |-> <<>>]
Default_write_file(path, contents) == IoErr(Unsupported)

(* The StdIo methods, over the file system fsys and the process environment. *)
StdinLines == {<<>>, PathA}
ProcessArgs == <<PathA>>
EnvName == PathA
EnvValue == PathDir

StdIo_var(name) ==
  IF name = EnvName THEN [some |-> TRUE, str |-> EnvValue] ELSE [some |-> FALSE, str |-> <<>>]
StdIo_args == ProcessArgs
StdIo_file_exists(fsys, path) == path \in FsPaths /\ fsys[path].tag # "none"
StdIo_is_file(fsys, path) ==
  IF StdIo_file_exists(fsys, path)
  THEN [ok |-> TRUE, msg |-> "", is |-> fsys[path].tag = "file"]
  ELSE [ok |-> FALSE, msg |-> "No such file or directory (os error 2)", is |-> FALSE]
StdIo_list_dir(fsys, path) ==
  IF path \in FsPaths /\ fsys[path].tag = "dir"
  THEN LET kids == {q \in FsPaths : IsChild(path, q) /\ fsys[q].tag # "none"}
       IN [ok |-> TRUE, msg |-> "",
           paths |-> IF kids = {} THEN <<>> ELSE <<CHOOSE q \in kids : TRUE>>]
  ELSE [ok |-> FALSE, msg |-> "Not a directory (os error 20)", paths |-> <<>>]
StdIo_read_file(fsys, path) ==
  IF path \in FsPaths /\ fsys[path].tag = "file"
  THEN [ok |-> TRUE, msg |-> "", bytes |-> fsys[path].bytes]
  ELSE [ok |-> FALSE, msg |-> "No such file or directory (os error 2)", bytes |-> <<>>]
(* fs::write creates or truncates the file; WriteFs is the file system after it *)
CanWrite(fsys, path) ==
  path \in FsPaths /\ fsys[path].tag # "dir" /\ ParentIsDir(fsys, path)
WriteFsAppending(fsys, path, contents) ==
  IF CanWrite(fsys, path)
  THEN [fsys EXCEPT ![path] = File(fsys[path].bytes \o contents)]
  ELSE fsys
StdIo_write_file(fsys, path, contents) ==
  IF CanWrite(fsys, path) THEN IoOk ELSE IoErr("Permission denied (os error 13)")
WriteFs(fsys, path, contents) ==
  IF CanWrite(fsys, path) THEN [fsys EXCEPT ![path] = File(contents)] ELSE fsys

(* env.io.method(): the call through the trait object *)
Io_scan_lines == IF backend = "StdIo" THEN StdinLines ELSE {Default_scan_line}
Io_var(name) == IF backend = "StdIo" THEN StdIo_var(name) ELSE Default_var(name)
Io_args == IF backend = "StdIo" THEN StdIo_args ELSE Default_args
Io_file_exists(path) ==
  IF backend = "StdIo" THEN StdIo_file_exists(fs, path) ELSE Default_file_exists(path)
Io_list_dir(path) ==
  IF backend = "StdIo" THEN StdIo_list_dir(fs, path) ELSE Default_list_dir(path)
Io_is_file(path) ==
  IF backend = "StdIo" THEN StdIo_is_file(fs, path) ELSE Default_is_file(path)
Io_read_file(path) ==
  IF backend = "StdIo" THEN StdIo_read_file(fs, path) ELSE Default_read_file(path)
Io_write_file(path, contents) ==
  IF backend = "StdIo" THEN StdIo_write_file(fs, path, contents)
  ELSE Default_write_file(path, contents)
Io_write_fs(path, contents) ==
  IF backend = "StdIo" THEN WriteFs(fs, path, contents) ELSE fs

----------------------------------------------------------------------------
(* The io_op! table: IoOp::ALL, IoOp::args and IoOp::outputs. *)
ALL ==
  <<"show", "prin", "print", "scan", "args", "var", "rand", "freadstr",
    "fwritestr", "freadbytes", "fwritebytes", "flines", "fexists", "flistdir",
    "fisfile", "import", "now", "imread", "imwrite", "imshow", "audioplay">>

OpArgs(op) == IF op \in {"scan", "args", "rand", "now"} THEN 0 ELSE 1
OpOutputs(op) == IF op \in {"show", "prin", "print", "imshow", "audioplay"} THEN 0 ELSE 1

----------------------------------------------------------------------------
(* imwrite's choice of the output format: path.split('.').last() matched   *)
(* against the known extensions.                                           *)
RECURSIVE LastDot(_)
LastDot(path) ==
  IF path = <<>> THEN 0
  ELSE IF path[Len(path)] = 46 THEN Len(path)
  ELSE LastDot(SubSeq(path, 1, Len(path) - 1))

SplitDotLast(path) == SubSeq(path, LastDot(path) + 1, Len(path))

ExtJpg == <<106, 112, 103>>
ExtJpeg == <<106, 112, 101, 103>>
ExtPng == <<112, 110, 103>>
ExtBmp == <<98, 109, 112>>
ExtGif == <<103, 105, 102>>
ExtIco == <<105, 99, 111>>

output_format(path) ==
  LET ext == SplitDotLast(path)
  IN CASE ext \in {ExtJpg, ExtJpeg} -> "Jpeg"
       [] ext = ExtPng -> "Png"
       [] ext = ExtBmp -> "Bmp"
       [] ext = ExtGif -> "Gif"
       [] ext = ExtIco -> "Ico"
       [] OTHER -> "Png"

(* The image crate's encoders and decoder, held as a container of a magic  *)
(* byte for the format, the channel count, the dimensions and the pixels.  *)
Magic(format) ==
  CASE format = "Jpeg" -> 255 [] format = "Png" -> 137 [] format = "Bmp" -> 66
    [] format = "Gif" -> 71 [] OTHER -> 0
Channels(color) ==
  CASE color = "Luma8" -> 1 [] color = "LumaA8" -> 2 [] color = "Rgb8" -> 3 [] OTHER -> 4

value_to_image_bytes(value, format) ==
  LET img == value_to_image(value)
  IN IF img.tag = "Err" THEN [ok |-> FALSE, msg |-> img.msg, n |-> img.n, bytes |-> <<>>]
     ELSE [ok |-> TRUE, msg |-> "", n |-> -1,
           bytes |-> <<Magic(format), Channels(img.color), img.width, img.height>> \o img.buf]

ToRgba(c, px) ==
  CASE c = 1 -> <<px[1], px[1], px[1], 255>>
    [] c = 2 -> <<px[1], px[1], px[1], px[2]>>
    [] c = 3 -> <<px[1], px[2], px[3], 255>>
    [] OTHER -> px

(* image::load_from_memory(..).into_rgba8() *)
load_rgba8(bytes) ==
  IF /\ Len(bytes) >= 4
     /\ bytes[1] \in {255, 137, 66, 71, 0}
     /\ bytes[2] \in 1..4
     /\ Len(bytes) = 4 + bytes[2] * bytes[3] * bytes[4]
  THEN LET c == bytes[2]
           w == bytes[3]
           h == bytes[4]
       IN [ok |-> TRUE, width |-> w, height |-> h,
           raw |-> Concat([i \in 1..(w * h) |->
                     ToRgba(c, SubSeq(bytes, 4 + (i - 1) * c + 1, 4 + i * c))])]
  ELSE [ok |-> FALSE, width |-> 0, height |-> 0, raw |-> <<>>]

----------------------------------------------------------------------------
(* IoOp::run.  last records the outcome of the latest run: the operation,  *)
(* the stack depth it met, Ok or Err with the error's text and the number  *)
(* the text embeds, the values popped and pushed, the optional capability  *)
(* of env.io it called, the path it used and whether env.import ran; text  *)
(* tells whether the value on top of the stack it met was a string.        *)
TopIsString == stack # <<>> /\ IsString(stack[Len(stack)])
LastOk(op, popped, pushed, cap, path, imported) ==
  [op |-> op, depth |-> Len(stack), text |-> TopIsString, ok |-> TRUE, msg |-> "",
   n |-> -1, popped |-> popped, pushed |-> pushed, cap |-> cap, path |-> path,
   imported |-> imported]
LastErr(op, popped, msg, n, cap, path) ==
  [op |-> op, depth |-> Len(stack), text |-> TopIsString, ok |-> FALSE, msg |-> msg,
   n |-> n, popped |-> popped, pushed |-> 0, cap |-> cap, path |-> path,
   imported |-> FALSE]

Top(stk) == stk[Len(stk)]
Pop(stk) == SubSeq(stk, 1, Len(stk) - 1)
EmptyStack == "Stack was empty when evaluating argument"

NoWrite == [by |-> "none", x |-> <<>>]
audio == <<AUDIO_STREAM, playing>>
others == <<cvars, fvars, backend, program>>

(* A run that touches neither the file system nor the audio stream. *)
Finish(stk, out) ==
  /\ stack' = stk
  /\ last' = out
  /\ UNCHANGED <<fs, written, audio, others>>

(* env.pop(1)?.as_string(env, requirement)? *)
PopString(requirement) ==
  IF stack = <<>>
  THEN [ok |-> FALSE, popped |-> 0, msg |-> EmptyStack, rest |-> stack, str |-> <<>>]
  ELSE IF ~IsString(Top(stack))
  THEN [ok |-> FALSE, popped |-> 1, msg |-> requirement, rest |-> Pop(stack), str |-> <<>>]
  ELSE [ok |-> TRUE, popped |-> 1, msg |-> "", rest |-> Pop(stack), str |-> Top(stack).data]

(* Show, Prin, Print: pop one value and print it. *)
RunPrintLike(op) ==
  IF stack = <<>>
  THEN Finish(stack, LastErr(op, 0, EmptyStack, -1, "", <<>>))
  ELSE Finish(Pop(stack), LastOk(op, 1, 0, "", <<>>, FALSE))

RunShow == RunPrintLike("show")
RunPrin == RunPrintLike("prin")
RunPrintLn == RunPrintLike("print")

RunScan ==
  /\ Len(stack) < MaxStack
  /\ \E line \in Io_scan_lines :
       Finish(Append(stack, Str(line)), LastOk("scan", 0, 1, "scan_line", <<>>, FALSE))

RunArgs ==
  /\ Len(stack) < MaxStack
  /\ Finish(Append(stack, StrRows(Io_args)), LastOk("args", 0, 1, "args", <<>>, FALSE))

RunVar ==
  LET key == PopString("Augument to var must be a string")
  IN IF ~key.ok
     THEN Finish(key.rest, LastErr("var", key.popped, key.msg, -1, "", <<>>))
     ELSE LET var == Io_var(key.str)
          IN Finish(Append(key.rest, Str(IF var.some THEN var.str ELSE <<>>)),
                    LastOk("var", 1, 1, "var", <<>>, FALSE))

RandValues == {0, 2}
RunRand ==
  /\ Len(stack) < MaxStack
  /\ \E num \in RandValues :
       Finish(Append(stack, Scalar(num)), LastOk("rand", 0, 1, "", <<>>, FALSE))

NowValues == {Den}
RunNow ==
  /\ Len(stack) < MaxStack
  /\ \E t \in NowValues :
       Finish(Append(stack, Scalar(t)), LastOk("now", 0, 1, "", <<>>, FALSE))

(* The operations that pop a path, call one capability and push its result. *)
RunFReadStr ==
  LET path == PopString("Path must be a string")
  IN IF ~path.ok
     THEN Finish(path.rest, LastErr("freadstr", path.popped, path.msg, -1, "", <<>>))
     ELSE LET file == Io_read_file(path.str)
              contents == from_utf8(file.bytes)
          IN IF ~file.ok
             THEN Finish(path.rest, LastErr("freadstr", 1, file.msg, -1, "read_file", path.str))
             ELSE IF ~contents.ok
             THEN Finish(path.rest,
                         LastErr("freadstr", 1, "Failed to read file", -1, "read_file", path.str))
             ELSE Finish(Append(path.rest, Str(contents.str)),
                         LastOk("freadstr", 1, 1, "read_file", path.str, FALSE))

RunFReadBytes ==
  LET path == PopString("Path must be a string")
  IN IF ~path.ok
     THEN Finish(path.rest, LastErr("freadbytes", path.popped, path.msg, -1, "", <<>>))
     ELSE LET file == Io_read_file(path.str)
          IN IF ~file.ok
             THEN Finish(path.rest,
                         LastErr("freadbytes", 1, file.msg, -1, "read_file", path.str))
             ELSE Finish(Append(path.rest, ByteArray(file.bytes)),
                         LastOk("freadbytes", 1, 1, "read_file", path.str, FALSE))

RunFLines ==
  LET path == PopString("Path must be a string")
  IN IF ~path.ok
     THEN Finish(path.rest, LastErr("flines", path.popped, path.msg, -1, "", <<>>))
     ELSE LET file == Io_read_file(path.str)
              contents == from_utf8(file.bytes)
          IN IF ~file.ok
             THEN Finish(path.rest, LastErr("flines", 1, file.msg, -1, "read_file", path.str))
             ELSE IF ~contents.ok
             THEN Finish(path.rest,
                         LastErr("flines", 1, "Failed to read file", -1, "read_file", path.str))
             ELSE Finish(Append(path.rest, StrRows(lines(contents.str))),
                         LastOk("flines", 1, 1, "read_file", path.str, FALSE))

RunFExists ==
  LET path == PopString("Path must be a string")
  IN IF ~path.ok
     THEN Finish(path.rest, LastErr("fexists", path.popped, path.msg, -1, "", <<>>))
     ELSE Finish(Append(path.rest, Bool(Io_file_exists(path.str))),
                 LastOk("fexists", 1, 1, "file_exists", path.str, FALSE))

RunFListDir ==
  LET path == PopString("Path must be a string")
  IN IF ~path.ok
     THEN Finish(path.rest, LastErr("flistdir", path.popped, path.msg, -1, "", <<>>))
     ELSE LET paths == Io_list_dir(path.str)
          IN IF ~paths.ok
             THEN Finish(path.rest, LastErr("flistdir", 1, paths.msg, -1, "list_dir", path.str))
             ELSE Finish(Append(path.rest, StrRows(paths.paths)),
                         LastOk("flistdir", 1, 1, "list_dir", path.str, FALSE))

RunFIsFile ==
  LET path == PopString("Path must be a string")
  IN IF ~path.ok
     THEN Finish(path.rest, LastErr("fisfile", path.popped, path.msg, -1, "", <<>>))
     ELSE LET is_file == Io_is_file(path.str)
          IN IF ~is_file.ok
             THEN Finish(path.rest, LastErr("fisfile", 1, is_file.msg, -1, "is_file", path.str))
             ELSE Finish(Append(path.rest, Bool(is_file.is)),
                         LastOk("fisfile", 1, 1, "is_file", path.str, FALSE))

(* FWriteStr and FWriteBytes: pop the path, pop the contents, write the file. *)
RunFWriteStr ==
  LET path == PopString("Path must be a string")
  IN IF ~path.ok
     THEN Finish(path.rest, LastErr("fwritestr", path.popped, path.msg, -1, "", <<>>))
     ELSE IF path.rest = <<>>
     THEN Finish(path.rest, LastErr("fwritestr", 1, EmptyStack, -1, "", path.str))
     ELSE IF ~IsString(Top(path.rest))
     THEN Finish(Pop(path.rest),
                 LastErr("fwritestr", 2, "Contents must be a string", -1, "", path.str))
     ELSE LET contents == Top(path.rest)
              bytes == into_bytes_str(contents.data)
              done == Io_write_file(path.str, bytes)
          IN /\ stack' = Pop(path.rest)
             /\ fs' = Io_write_fs(path.str, bytes)
             /\ written' = IF done.ok
                           THEN [written EXCEPT ![path.str] = [by |-> "fwritestr", x |-> contents]]
                           ELSE written
             /\ last' = IF done.ok
                        THEN LastOk("fwritestr", 2, 0, "write_file", path.str, FALSE)
                        ELSE LastErr("fwritestr", 2, done.msg, -1, "write_file", path.str)
             /\ UNCHANGED <<audio, others>>

RunFWriteBytes ==
  LET path == PopString("Path must be a string")
  IN IF ~path.ok
     THEN Finish(path.rest, LastErr("fwritebytes", path.popped, path.msg, -1, "", <<>>))
     ELSE IF path.rest = <<>>
     THEN Finish(path.rest, LastErr("fwritebytes", 1, EmptyStack, -1, "", path.str))
     ELSE IF ~IsByteArray(Top(path.rest))
     THEN Finish(Pop(path.rest),
                 LastErr("fwritebytes", 2, "Contents must be a byte array", -1, "", path.str))
     ELSE LET contents == Top(path.rest)
              bytes == BytesOf(contents)
              done == Io_write_file(path.str, bytes)
          IN /\ stack' = Pop(path.rest)
             /\ fs' = Io_write_fs(path.str, bytes)
             /\ written' = IF done.ok
                           THEN [written EXCEPT ![path.str] = [by |-> "fwritebytes", x |-> contents]]
                           ELSE written
             /\ last' = IF done.ok
                        THEN LastOk("fwritebytes", 2, 0, "write_file", path.str, FALSE)
                        ELSE LastErr("fwritebytes", 2, done.msg, -1, "write_file", path.str)
             /\ UNCHANGED <<audio, others>>

(* What env.import may do with the module's text: fail, or run it and      *)
(* leave the values it pushes.                                             *)
ImportPushes == {<<>>, <<Bool(TRUE)>>, <<Bool(TRUE), Bool(TRUE)>>}

(* env.stack_size() > 0, with the path popped *)
StackNotEmptyOffByOne(rest) == Len(rest) > 1
StackNotEmpty(rest) == Len(rest) > 0

RunImport ==
  LET path == PopString("Import path must be a string")
  IN IF ~path.ok
     THEN Finish(path.rest, LastErr("import", path.popped, path.msg, -1, "", <<>>))
     ELSE IF StackNotEmpty(path.rest)
     THEN Finish(path.rest,
                 LastErr("import", 1, "Stack must be empty before import, but there are",
                         Len(path.rest), "", path.str))
     ELSE LET file == Io_read_file(path.str)
              input == from_utf8(file.bytes)
          IN IF ~file.ok
             THEN Finish(path.rest, LastErr("import", 1, file.msg, -1, "read_file", path.str))
             ELSE IF ~input.ok
             THEN Finish(path.rest,
                         LastErr("import", 1, "Failed to read file", -1, "read_file", path.str))
             ELSE \/ /\ stack' = path.rest
                     /\ last' = [LastErr("import", 1, "import failed", -1, "read_file", path.str)
                                   EXCEPT !.imported = TRUE]
                     /\ UNCHANGED <<fs, written, audio, others>>
                  \/ \E pushes \in ImportPushes :
                       /\ Len(pushes) <= MaxStack
                       /\ Finish(path.rest \o pushes,
                                 LastOk("import", 1, Len(pushes), "read_file", path.str, TRUE))

RunImRead ==
  LET path == PopString("Path must be a string")
  IN IF ~path.ok
     THEN Finish(path.rest, LastErr("imread", path.popped, path.msg, -1, "", <<>>))
     ELSE LET file == Io_read_file(path.str)
              image == load_rgba8(file.bytes)
          IN IF ~file.ok
             THEN Finish(path.rest, LastErr("imread", 1, file.msg, -1, "read_file", path.str))
             ELSE IF ~image.ok
             THEN Finish(path.rest,
                         LastErr("imread", 1, "Failed to read image", -1, "read_file", path.str))
             ELSE Finish(Append(path.rest,
                                Array("Byte", <<image.height, image.width, 4>>, image.raw)),
                         LastOk("imread", 1, 1, "read_file", path.str, FALSE))

RunImWrite ==
  LET path == PopString("Path must be a string")
  IN IF ~path.ok
     THEN Finish(path.rest, LastErr("imwrite", path.popped, path.msg, -1, "", <<>>))
     ELSE IF path.rest = <<>>
     THEN Finish(path.rest, LastErr("imwrite", 1, EmptyStack, -1, "", path.str))
     ELSE LET value == Top(path.rest)
              encoded == value_to_image_bytes(value, output_format(path.str))
              done == Io_write_file(path.str, encoded.bytes)
          IN IF ~encoded.ok
             THEN Finish(Pop(path.rest),
                         LastErr("imwrite", 2, encoded.msg, encoded.n, "", path.str))
             ELSE /\ stack' = Pop(path.rest)
                  /\ fs' = Io_write_fs(path.str, encoded.bytes)
                  /\ written' = IF done.ok THEN [written EXCEPT ![path.str] = NoWrite]
                                ELSE written
                  /\ last' = IF done.ok
                             THEN LastOk("imwrite", 2, 0, "write_file", path.str, FALSE)
                             ELSE LastErr("imwrite", 2, done.msg, -1, "write_file", path.str)
                  /\ UNCHANGED <<audio, others>>

(* StdIo::show_image: what viuer::print may answer *)
ShowOutcomes == {IoOk, IoErr("Failed to show image")}

RunImShow ==
  IF stack = <<>>
  THEN Finish(stack, LastErr("imshow", 0, EmptyStack, -1, "", <<>>))
  ELSE LET image == value_to_image(Top(stack))
       IN IF image.tag = "Err"
          THEN Finish(Pop(stack), LastErr("imshow", 1, image.msg, image.n, "", <<>>))
          ELSE \E shown \in (IF backend = "StdIo" THEN ShowOutcomes ELSE {Default_show_image}) :
                 Finish(Pop(stack),
                        IF shown.ok THEN LastOk("imshow", 1, 0, "show_image", <<>>, FALSE)
                        ELSE LastErr("imshow", 1, shown.msg, -1, "show_image", <<>>))

(* StdIo::play_audio.  decode, device and play are what rodio answers to    *)
(* Decoder::new_wav, OutputStream::try_default and play_raw.  try_default  *)
(* returns a new stream, another handle than the one in the slot; storing  *)
(* it in AUDIO_STREAM replaces, and so drops, the one stored before.       *)
PlayOutcomes == {"NoDecode", "NoDevice", "NoPlay", "Ok"}
try_default(slot) == IF slot = 1 THEN 2 ELSE 1
StoreStream(slot, stream) == stream

StdIo_play_audio(outcome) ==
  CASE outcome = "NoDecode" ->
         /\ last' = LastErr("audioplay", 1, "Failed to decode audio", -1, "play_audio", <<>>)
         /\ UNCHANGED audio
    [] outcome = "NoDevice" ->
         /\ last' = LastErr("audioplay", 1, "Failed to create audio output stream", -1,
                            "play_audio", <<>>)
         /\ UNCHANGED audio
    [] OTHER ->
         /\ AUDIO_STREAM' = StoreStream(AUDIO_STREAM, try_default(AUDIO_STREAM))
         /\ IF outcome = "NoPlay"
            THEN /\ playing' = FALSE
                 /\ last' = LastErr("audioplay", 1, "Failed to play audio", -1,
                                    "play_audio", <<>>)
            ELSE /\ playing' = TRUE
                 /\ last' = LastOk("audioplay", 1, 0, "play_audio", <<>>, FALSE)

RunAudioPlay ==
  IF stack = <<>>
  THEN Finish(stack, LastErr("audioplay", 0, EmptyStack, -1, "", <<>>))
  ELSE \E zero \in HoundZeroChannels :
         LET bytes == value_to_wav_bytes(Top(stack), zero)
         IN IF bytes.tag = "Err"
            THEN Finish(Pop(stack), LastErr("audioplay", 1, bytes.msg, bytes.n, "", <<>>))
            ELSE IF bytes.tag = "Panic"
            THEN Finish(Pop(stack), LastErr("audioplay", 1, "panicked", -1, "", <<>>))
            ELSE /\ stack' = Pop(stack)
                 /\ IF backend = "StdIo"
                    THEN \E outcome \in PlayOutcomes : StdIo_play_audio(outcome)
                    ELSE /\ last' = LastErr("audioplay", 1, Default_play_audio.msg, -1,
                                            "play_audio", <<>>)
                         /\ UNCHANGED audio
                 /\ UNCHANGED <<fs, written, others>>

(* The evaluator's program: the operations it calls and the literals it    *)
(* pushes between two of them.  Pushing the next literal ends the look at  *)
(* the outcome of the run before.                                          *)
Programs == {"console", "files", "media"}

PushValues ==
  CASE program = "console" -> {Str(PathA), Str(PathDir)}
    [] program = "files" -> {Str(PathA), Str(PathDir), Str(PathDirA), ByteArray(<<195>>)}
    [] OTHER -> {Str(PathA), Array("Num", <<1, 1>>, <<2>>)}

NoRun ==
  [op |-> "none", depth |-> 0, text |-> FALSE, ok |-> TRUE, msg |-> "", n |-> -1, popped |-> 0,
   pushed |-> 0, cap |-> "", path |-> <<>>, imported |-> FALSE]

Push ==
  /\ Len(stack) < MaxStack
  /\ \E v \in PushValues : stack' = Append(stack, v)
  /\ last' = NoRun
  /\ UNCHANGED <<fs, written, audio, others>>

----------------------------------------------------------------------------
IoStart ==
  /\ stack = <<>>
  /\ fs = [p \in FsPaths |-> IF p = PathDir THEN Dir ELSE NoFile]
  /\ written = [p \in FsPaths |-> NoWrite]
  /\ AUDIO_STREAM = 0
  /\ playing = FALSE
  /\ last = NoRun

CodecIdle == cval = Scalar(0) /\ cimg = NoResult /\ cwav = NoResult
FormatIdle == fpath = <<>> /\ fformat = "None"

Init ==
  /\ backend \in {"StdIo", "Default"}
  /\ program \in Programs
  /\ IoStart
  /\ CodecIdle
  /\ FormatIdle

Console == program = "console"
Files == program = "files"
Media == program = "media"

Next ==
  \/ Push
  \/ Console /\ RunShow
  \/ Console /\ RunPrin
  \/ Console /\ RunPrintLn
  \/ Console /\ RunScan
  \/ Console /\ RunArgs
  \/ Console /\ RunVar
  \/ Console /\ RunRand
  \/ Console /\ RunNow
  \/ Files /\ RunFReadStr
  \/ Files /\ RunFWriteStr
  \/ Files /\ RunFReadBytes
  \/ Files /\ RunFWriteBytes
  \/ Files /\ RunFLines
  \/ Files /\ RunFExists
  \/ Files /\ RunFListDir
  \/ Files /\ RunFIsFile
  \/ Files /\ RunImport
  \/ Media /\ RunImRead
  \/ Media /\ RunImWrite
  \/ Media /\ RunImShow
  \/ Media /\ RunAudioPlay

Spec == Init /\ [][Next]_vars

----------------------------------------------------------------------------
(* imwrite's format selection on its own: every path within the bounds. *)
PathChars == {106, 112, 103, 46, 47}
ScenarioPaths ==
  {<<97, 46>> \o e : e \in {ExtJpg, ExtJpeg, ExtPng, ExtBmp, ExtGif, ExtIco, <<116, 120, 116>>}}
   \cup {ExtJpeg, ExtPng, ExtBmp, ExtGif, ExtIco}
FormatPaths == SeqsUpTo(PathChars, MaxPathLen) \cup ScenarioPaths

FormatInit ==
  /\ fpath \in FormatPaths
  /\ fformat = "None"
  /\ backend = "StdIo"
  /\ program = "media"
  /\ IoStart
  /\ CodecIdle

SelectFormat ==
  /\ fformat = "None"
  /\ fformat' = output_format(fpath)
  /\ UNCHANGED <<fpath, cvars, iovars>>

SpecFormat == FormatInit /\ [][SelectFormat]_vars

----------------------------------------------------------------------------
(* The codec's inputs: every Value within the bounds, and the spec's two   *)
(* concrete scenarios.                                                     *)
Shapes == {s \in SeqsUpTo(0..MaxDim, MaxRank) : Product(s) <= MaxCells}

ElemsOf(kind) ==
  CASE kind = "Num" -> NumElems
    [] kind = "Byte" -> ByteElems
    [] OTHER -> CharElems

BoundedValues ==
  UNION {UNION {{Array(kind, s, d) : d \in SeqsOfLen(ElemsOf(kind), Product(s))}
                : s \in Shapes} : kind \in {"Num", "Byte", "Char"}}

GrayScenario == Array("Num", <<2, 3>>, <<0, 2, 4, 1, 3, 4>>)
FiveChannelScenario == Array("Num", <<1, 1, 5>>, <<0, 0, 0, 0, 0>>)

CodecValues == BoundedValues \cup {GrayScenario, FiveChannelScenario}

CodecInit ==
  /\ cval \in CodecValues
  /\ cimg = NoResult
  /\ cwav = NoResult
  /\ FormatIdle
  /\ backend = "StdIo"
  /\ program = "media"
  /\ IoStart

EncodeImage ==
  /\ cimg = NoResult
  /\ cimg' = value_to_image(cval)
  /\ UNCHANGED <<cval, cwav, fvars, iovars>>

EncodeWav ==
  /\ cwav = NoResult
  /\ \E zero \in HoundZeroChannels : cwav' = value_to_wav_bytes(cval, zero)
  /\ UNCHANGED <<cval, cimg, fvars, iovars>>

CodecNext == EncodeImage \/ EncodeWav

SpecCodec == CodecInit /\ [][CodecNext]_vars

----------------------------------------------------------------------------
(* Properties of the dispatcher, checked under Spec. *)

\* C1 (as stated): every run that succeeds has popped args() values and
\* pushed outputs() values, the numbers of the io_op! table.
C1_TableArgsAndOutputs ==
  (last.op # "none" /\ last.ok) =>
     (last.popped = OpArgs(last.op) /\ last.pushed = OpOutputs(last.op))

StackMessage == "Stack must be empty before import, but there are"

\* C2 (as stated): import run on a stack that holds a value besides the
\* path argument fails with the error naming the stack depth, before
\* read_file is called and before env.import runs.
C2_ImportNeedsEmptyStack ==
  (last.op = "import" /\ last.depth >= 2) =>
     /\ ~last.ok
     /\ last.msg = StackMessage
     /\ last.n = last.depth - 1
     /\ last.cap = ""
     /\ ~last.imported

\* C2 (amended): import run on a stack that holds a value besides the path
\* argument fails before read_file is called and before env.import runs;
\* when the path argument is a string the error names the stack depth (the
\* values left once the path is popped), and when it is not a string the
\* error is "Import path must be a string".
C2_ImportNeedsEmptyStackAmended ==
  (last.op = "import" /\ last.depth >= 2) =>
     /\ ~last.ok
     /\ last.cap = ""
     /\ ~last.imported
     /\ last.popped = 1
     /\ Len(stack) = last.depth - 1
     /\ IF last.text
        THEN last.msg = StackMessage /\ last.n = last.depth - 1
        ELSE last.msg = "Import path must be a string"

C2_Witness ==
  /\ last.op = "import"
  /\ last.depth = 2
  /\ last.text
  /\ last.msg = StackMessage
  /\ last.n = 1

UnsupportedMessages ==
  {"Showing images not supported in this environment",
   "Playing audio not supported in this environment",
   "File IO not supported in this environment"}

\* C6 (as stated): on a backend that implements only print_str and rand,
\* every operation that calls an optional capability fails with the fixed
\* unsupported-in-this-environment message.
C6_EveryDefaultFails ==
  (backend = "Default" /\ last.cap # "") =>
     (~last.ok /\ last.msg \in UnsupportedMessages)

DefaultMessage(cap) ==
  CASE cap = "show_image" -> "Showing images not supported in this environment"
    [] cap = "play_audio" -> "Playing audio not supported in this environment"
    [] OTHER -> "File IO not supported in this environment"

DefaultPushed(cap) ==
  CASE cap = "scan_line" -> Str(<<>>)
    [] cap = "var" -> Str(<<>>)
    [] cap = "args" -> StrRows(<<>>)
    [] OTHER -> Bool(FALSE)

\* C6 (amended): on such a backend the operations that call show_image,
\* play_audio, list_dir, is_file, read_file or write_file fail with that
\* capability's fixed message; scan_line, var, args and file_exists have no
\* failing default (they answer an empty line, no variable, no arguments
\* and false), so scan, var, args and fexists succeed and push the empty
\* string, the empty string, the empty list and false.
C6_FallibleDefaultsFail ==
  (backend = "Default" /\ last.cap # "") =>
     IF last.cap \in {"show_image", "play_audio", "list_dir", "is_file",
                      "read_file", "write_file"}
     THEN ~last.ok /\ last.msg = DefaultMessage(last.cap)
     ELSE /\ last.cap \in {"scan_line", "var", "args", "file_exists"}
          /\ last.ok
          /\ last.pushed = 1
          /\ stack # <<>>
          /\ Top(stack) = DefaultPushed(last.cap)

C6_Witness ==
  /\ backend = "Default"
  /\ last.op = "freadstr"
  /\ last.cap = "read_file"
  /\ ~last.ok
  /\ last.msg = "File IO not supported in this environment"

C10_StreamRetained ==
  [][(AUDIO_STREAM # 0 /\ playing) => (AUDIO_STREAM' = AUDIO_STREAM)]_vars

----------------------------------------------------------------------------
(* Property of imwrite's format selection, checked under SpecFormat. *)

RECURSIVE LastSlash(_)
LastSlash(path) ==
  IF path = <<>> THEN 0
  ELSE IF path[Len(path)] = 47 THEN Len(path)
  ELSE LastSlash(SubSeq(path, 1, Len(path) - 1))

(* The file name of a path, and the extension of the file name: what       *)
(* follows its last dot, nothing when it has no dot.                       *)
FileName(path) == SubSeq(path, LastSlash(path) + 1, Len(path))
HasExtension(path) == \E i \in 1..Len(FileName(path)) : FileName(path)[i] = 46
Extension(path) ==
  LET name == FileName(path)
  IN IF HasExtension(path) THEN SubSeq(name, LastDot(name) + 1, Len(name)) ELSE <<>>

FormatOfExtension(ext) ==
  CASE ext \in {ExtJpg, ExtJpeg} -> "Jpeg"
    [] ext = ExtBmp -> "Bmp"
    [] ext = ExtGif -> "Gif"
    [] ext = ExtIco -> "Ico"
    [] OTHER -> "Png"

\* C7 (as stated): the format imwrite selects is the one of the path's
\* file extension alone: jpg/jpeg, png, bmp, gif, ico, and PNG for every
\* other path, a path without any extension (a file named "jpg") included.
C7_FormatByExtension ==
  (fformat # "None") =>
     /\ fformat = FormatOfExtension(Extension(fpath))
     /\ (~HasExtension(fpath) => fformat = "Png")

----------------------------------------------------------------------------
(* Properties of the codec, checked under SpecCodec. *)

ChannelMessage ==
  "For a color image, the last dimension of the image array must be between 1 and 4 but it is"
ColorOf(c) ==
  CASE c = 1 -> "Luma8" [] c = 2 -> "LumaA8" [] c = 3 -> "Rgb8" [] OTHER -> "Rgba8"

\* C3 (as stated): value_to_image and value_to_wav_bytes return Ok or Err
\* for every Value of every kind, rank and shape; neither ever panics.
C3_CodecNeverPanics ==
  /\ cimg.tag \in {"None", "Ok", "Err"}
  /\ cwav.tag \in {"None", "Ok", "Err"}

Rank3Outcome ==
  LET height == cval.shape[1]
      width == cval.shape[2]
      channels == cval.shape[3]
  IN IF channels \in 1..4
     THEN /\ cimg.tag = "Ok"
          /\ cimg.color = ColorOf(channels)
          /\ cimg.width = width
          /\ cimg.height = height
     ELSE /\ cimg.tag = "Err"
          /\ cimg.msg = ChannelMessage
          /\ cimg.n = channels

\* C4 (as stated): every rank-3 array [height, width, channels] encodes to
\* an image of that channel layout, width and height when channels is in
\* 1..4, and fails with an error naming the channel count otherwise.
C4_EveryRank3Array ==
  (Rank(cval) = 3 /\ cimg # NoResult) => Rank3Outcome

\* C4 (amended): the same, for every rank-3 array of a numeric kind (Num or
\* Byte); an array of any other kind fails with "Image must be a numeric
\* array" whatever its channel count.
C4_NumericRank3Array ==
  (Rank(cval) = 3 /\ cimg # NoResult) =>
     IF cval.kind \in {"Num", "Byte"}
     THEN Rank3Outcome
     ELSE cimg = ImgErr("Image must be a numeric array", -1)

C4_Witness ==
  /\ cval.kind = "Num"
  /\ cval.shape = <<1, 1, 3>>
  /\ cimg.tag = "Ok"
  /\ cimg.color = "Rgb8"

(* The numerator over Den of the number a buffer element stands for. *)
ElemNumerator(kind, e) == IF kind = "Num" THEN e ELSE ByteOr(e, 0) * Den

\* C5 (as stated): every rank-2 array [C, S] with flat buffer d encodes to
\* a WAV of C channels and C * S samples, the sample at stream position
\* t * C + c being d[c * S + t].
C5_Rank2Interleaved ==
  (Rank(cval) = 2 /\ cwav # NoResult) =>
     LET C == cval.shape[1]
         S == cval.shape[2]
     IN /\ cwav.tag = "Ok"
        /\ cwav.channels = C
        /\ Len(cwav.samples) = C * S
        /\ \A t \in 0..(S - 1) : \A c \in 0..(C - 1) :
             cwav.samples[t * C + c + 1] = ElemNumerator(cval.kind, cval.data[c * S + t + 1])

InUnitInterval(kind, e) ==
  IF kind = "Num" THEN 0 <= e /\ e <= Den ELSE e \in {0, 1}

\* C9: a rank-2 numeric array [H, W] with elements in [0, 1] encodes to a
\* grayscale image of width W and height H whose pixel at row r, column c
\* is the byte floor(v * 255) of the element v at flat index r * W + c;
\* the [2,3] scenario gives the byte rows [0,127,255] and [63,191,255].
C9_GrayFloor ==
  ( /\ Rank(cval) = 2
    /\ cval.kind \in {"Num", "Byte"}
    /\ \A i \in 1..Len(cval.data) : InUnitInterval(cval.kind, cval.data[i])
    /\ cimg # NoResult ) =>
     LET H == cval.shape[1]
         W == cval.shape[2]
     IN /\ cimg.tag = "Ok"
        /\ cimg.color = "Luma8"
        /\ cimg.width = W
        /\ cimg.height = H
        /\ Len(cimg.buf) = H * W
        /\ \A r \in 0..(H - 1) : \A c \in 0..(W - 1) :
             LET v == ElemNumerator(cval.kind, cval.data[r * W + c + 1])
                 b == cimg.buf[r * W + c + 1]
             IN b \in 0..255 /\ b * Den <= v * 255 /\ v * 255 < (b + 1) * Den
        /\ (cval = GrayScenario => cimg.buf = <<0, 127, 255, 63, 191, 255>>)

C9_Witness ==
  /\ cval = GrayScenario
  /\ cimg.tag = "Ok"
  /\ cimg.width = 3
  /\ cimg.height = 2

====
